---- MODULE Spec2Model ----
(***************************************************************************)
(* Model of annotate-it: the pointer arbiter of IpadOptimizedCanvas        *)
(* (stylus detection, palm rejection, pressure-derived stroke width) and   *)
(* the canvas sizing of App (calculateCanvasDimensions).                   *)
(*                                                                         *)
(* Numbers.  A pressure is a JavaScript number in [0,1]; the model takes   *)
(* the pressures k/PressureSteps, k in 0..PressureSteps, and stores k.     *)
(* A stroke width is stored in units of 1/WidthUnit px, WidthUnit being    *)
(* 2*PressureSteps, so that base*(0.5 + 1.5*pressure) is the integer       *)
(* base*(PressureSteps + 3*k).                                             *)
(*                                                                         *)
(* Steps.  A step is one dispatched event with its handler, the render of  *)
(* the state it sets and the effects of that render: the handlers are      *)
(* synchronous, and React runs the effects of a render caused by a         *)
(* discrete event (pointerdown, pointerup, the slider's change) before the *)
(* next event is dispatched.  A pointermove sets no dependency of an       *)
(* effect.                                                                 *)
(*                                                                         *)
(* Contacts.  A pointer id stands for one contact and has one pointerType. *)
(* A contact goes down, moves and goes up or is cancelled; a pen also      *)
(* moves while it hovers; any number of contacts may be down together.     *)
(***************************************************************************)
EXTENDS Integers, FiniteSets, Sequences, TLC

\* ------------------------------------------------------------- bounds
NumPens == 2
NumTouches == 1
PressureSteps == 4
SmallStrokes == 1

\* ---------------------------------------------------- program constants
MinPen == 1
MaxPen == 20
DefaultStrokeWidth == 4

WidthUnit == 2 * PressureSteps
FullPressure == PressureSteps

PenIds == 1..NumPens
TouchIds == (NumPens + 1)..(NumPens + NumTouches)
MouseIds == {NumPens + NumTouches + 1}
PointerIds == PenIds \cup TouchIds \cup MouseIds
Null == 0

Pressures == 0..PressureSteps

\* The slider positions the model tries, among MinPen..MaxPen.
StrokeWidths ==
  {w \in MinPen..MaxPen : w <= SmallStrokes \/ w = DefaultStrokeWidth \/ w = MaxPen}

VARIABLES
  baseStrokeWidth,     \* App's strokeWidth state, the strokeWidth prop (px)
  listenerBase,        \* baseStrokeWidth as captured by the attached listeners
  isStylusActive,      \* React state
  currentPressure,     \* React state, in 1/PressureSteps
  dynamicStrokeWidth,  \* React state, in 1/WidthUnit px
  activePointers,      \* ref: pointer id -> [type]; the pressure stored beside
                       \* the type is never read and is left out
  stylusPointerId,     \* ref: id of the active stylus, or Null
  isStylusActiveRef,   \* ref
  down,                \* environment: the contacts now touching the surface
  last,                \* the event last dispatched and what its handler did to it
  imageWidth,          \* App state: natural width of the background image
  imageHeight,         \* App state: natural height of the background image
  canvasDims,          \* calculateCanvasDimensions(imageWidth, imageHeight) of the
                       \* last render
  bgSize,              \* App state: "contain", "cover" or "100% 100%"
  apiKey,              \* App state: the stored Gemini key, "" when none
  apiKeyInput,         \* App state: the text of the key input
  isDigitizing,        \* App state
  digitizedText,       \* App state: the transcription, or NoText
  digitizationError,   \* App state: the displayed error, or NoError
  showDigitizationResult,  \* App state: the result dialog is open
  showApiKeySettings,  \* App state: the API-key dialog is open
  ops,                 \* the composite operations (Save Image, Digitize) started:
                       \* slot -> the operation's position and what it has done
  lastStep,            \* the App handler or continuation that ran last
  backgroundImage,     \* App state: the image shown as background
  pendingLoads         \* the image loads started and not yet completed

arbiterVars ==
  <<baseStrokeWidth, listenerBase, isStylusActive, currentPressure,
    dynamicStrokeWidth, activePointers, stylusPointerId, isStylusActiveRef,
    down, last>>

canvasVars == <<imageWidth, imageHeight, canvasDims>>

composeVars ==
  <<bgSize, apiKey, apiKeyInput, isDigitizing, digitizedText, digitizationError,
    showDigitizationResult, showApiKeySettings, ops, lastStep>>

loadVars == <<backgroundImage, pendingLoads>>

vars == <<arbiterVars, canvasVars, composeVars, loadVars>>

\* what the arbiter's handlers leave alone, and what the image handlers do
nonArbiterVars == <<canvasVars, composeVars, loadVars>>
nonCanvasVars == <<arbiterVars, composeVars, loadVars>>
nonComposeVars == <<arbiterVars, canvasVars, loadVars>>

PointerType(id) ==
  IF id \in PenIds THEN "pen" ELSE IF id \in TouchIds THEN "touch" ELSE "mouse"

Max(a, b) == IF a >= b THEN a ELSE b
Min(a, b) == IF a <= b THEN a ELSE b

\* e.pressure || 1.0
PressureOrDefault(p) == IF p = 0 THEN FullPressure ELSE p

\* Math.max(1, baseStrokeWidth * (0.5 + pressure * 1.5)), in 1/WidthUnit px
PressureWidth(base, pressure) ==
  Max(WidthUnit, base * (PressureSteps + 3 * pressure))

\* a width of w px, in 1/WidthUnit px
Px(w) == w * WidthUnit

MapSet(m, k, v) == [i \in DOMAIN m \cup {k} |-> IF i = k THEN v ELSE m[i]]
MapDelete(m, k) == [i \in DOMAIN m \ {k} |-> m[i]]

\* Mutants of PalmRejecting: the test never true; the ref's test negated.
PalmRejectingWrongTest == isStylusActiveRef /\ stylusPointerId = Null
PalmRejectingNegatedRef == ~isStylusActiveRef \/ stylusPointerId # Null

\* isStylusActiveRef.current || stylusPointerId.current !== null
PalmRejecting == isStylusActiveRef \/ stylusPointerId # Null

\* Mutant of WidthEffect: the negation of the guard dropped.
WidthEffectInverted(active, base, width) == IF active THEN Px(base) ELSE width

\* The body of useEffect(..., [baseStrokeWidth, isStylusActive]): the stroke
\* width it leaves, given the committed state
WidthEffect(active, base, width) == IF ~active THEN Px(base) ELSE width

\* The stroke width once the render that commits active, base and width is
\* done: the effect runs when one of its dependencies has changed.
Committed(active, base, width) ==
  IF active # isStylusActive \/ base # baseStrokeWidth
  THEN WidthEffect(active, base, width)
  ELSE width

\* Mutant of ListenerEffect: the listeners keep the width they captured.
ListenerEffectStale(base) == listenerBase

\* useEffect(..., [baseStrokeWidth]): the listeners are attached again and
\* capture the committed baseStrokeWidth
ListenerEffect(base) == base

Event(type, id, pressure, prevented, wasStylus) ==
  [type |-> type, id |-> id, pressure |-> pressure, prevented |-> prevented,
   wasStylus |-> wasStylus]

ArbiterInit ==
  /\ baseStrokeWidth = DefaultStrokeWidth
  /\ listenerBase = DefaultStrokeWidth
  /\ isStylusActive = FALSE
  /\ currentPressure = FullPressure
  /\ dynamicStrokeWidth = Px(DefaultStrokeWidth)
  /\ activePointers = <<>>
  /\ stylusPointerId = Null
  /\ isStylusActiveRef = FALSE
  /\ down = {}
  /\ last = Event("none", Null, 0, FALSE, FALSE)

\* pointerdown on the wrapper (capture phase)
HandlePointerDown(id, p) ==
  /\ UNCHANGED nonArbiterVars
  /\ id \notin down
  /\ down' = down \cup {id}
  /\ UNCHANGED <<baseStrokeWidth, listenerBase>>
  /\ IF PointerType(id) = "pen"
     THEN LET pressure == PressureOrDefault(p) IN
          /\ isStylusActive' = TRUE
          /\ isStylusActiveRef' = TRUE
          /\ stylusPointerId' = id
          /\ activePointers' =
               MapSet(activePointers, id, [type |-> "pen"])
          /\ currentPressure' = pressure
          /\ dynamicStrokeWidth' =
               Committed(TRUE, baseStrokeWidth, PressureWidth(listenerBase, pressure))
          /\ last' = Event("pointerdown", id, p, FALSE, FALSE)
     ELSE IF PointerType(id) = "touch"
     THEN IF PalmRejecting
          THEN /\ last' = Event("pointerdown", id, p, TRUE, FALSE)
               /\ UNCHANGED <<isStylusActive, isStylusActiveRef, stylusPointerId,
                              activePointers, currentPressure, dynamicStrokeWidth>>
          ELSE /\ activePointers' =
                    MapSet(activePointers, id, [type |-> "touch"])
               /\ last' = Event("pointerdown", id, p, FALSE, FALSE)
               /\ UNCHANGED <<isStylusActive, isStylusActiveRef, stylusPointerId,
                              currentPressure, dynamicStrokeWidth>>
     ELSE /\ last' = Event("pointerdown", id, p, FALSE, FALSE)
          /\ UNCHANGED <<isStylusActive, isStylusActiveRef, stylusPointerId,
                         activePointers, currentPressure, dynamicStrokeWidth>>

\* Mutant of HandlePointerMove: the move of any pen updates the pressure.
HandlePointerMoveAnyPen(id, p) ==
  /\ UNCHANGED nonArbiterVars
  /\ PointerType(id) = "touch" => id \in down
  /\ UNCHANGED <<baseStrokeWidth, listenerBase, down, isStylusActive,
                 isStylusActiveRef, stylusPointerId, activePointers>>
  /\ IF PointerType(id) = "pen"
     THEN LET pressure == PressureOrDefault(p) IN
          /\ currentPressure' = pressure
          /\ dynamicStrokeWidth' =
               Committed(isStylusActive, baseStrokeWidth,
                         PressureWidth(listenerBase, pressure))
          /\ last' = Event("pointermove", id, p, FALSE, id = stylusPointerId)
     ELSE IF PointerType(id) = "touch"
     THEN /\ last' = Event("pointermove", id, p, PalmRejecting, FALSE)
          /\ UNCHANGED <<currentPressure, dynamicStrokeWidth>>
     ELSE /\ last' = Event("pointermove", id, p, FALSE, FALSE)
          /\ UNCHANGED <<currentPressure, dynamicStrokeWidth>>

\* pointermove on the wrapper (capture phase)
HandlePointerMove(id, p) ==
  /\ UNCHANGED nonArbiterVars
  /\ PointerType(id) = "touch" => id \in down
  /\ UNCHANGED <<baseStrokeWidth, listenerBase, down, isStylusActive,
                 isStylusActiveRef, stylusPointerId, activePointers>>
  /\ IF PointerType(id) = "pen"
     THEN IF id = stylusPointerId
          THEN LET pressure == PressureOrDefault(p) IN
               /\ currentPressure' = pressure
               /\ dynamicStrokeWidth' =
                    Committed(isStylusActive, baseStrokeWidth,
                              PressureWidth(listenerBase, pressure))
               /\ last' = Event("pointermove", id, p, FALSE, TRUE)
          ELSE /\ last' = Event("pointermove", id, p, FALSE, FALSE)
               /\ UNCHANGED <<currentPressure, dynamicStrokeWidth>>
     ELSE IF PointerType(id) = "touch"
     THEN /\ last' = Event("pointermove", id, p, PalmRejecting, FALSE)
          /\ UNCHANGED <<currentPressure, dynamicStrokeWidth>>
     ELSE /\ last' = Event("pointermove", id, p, FALSE, FALSE)
          /\ UNCHANGED <<currentPressure, dynamicStrokeWidth>>

\* Mutant of PointerUp: the end of any tracked pen resets the arbiter.
PointerUpAnyPen(type, id) ==
  /\ UNCHANGED nonArbiterVars
  /\ id \in down
  /\ down' = down \ {id}
  /\ UNCHANGED <<baseStrokeWidth, listenerBase>>
  /\ activePointers' = MapDelete(activePointers, id)
  /\ last' = Event(type, id, 0, FALSE, id = stylusPointerId)
  /\ IF /\ id \in DOMAIN activePointers
        /\ activePointers[id].type = "pen"
     THEN /\ isStylusActive' = FALSE
          /\ isStylusActiveRef' = FALSE
          /\ stylusPointerId' = Null
          /\ currentPressure' = FullPressure
          /\ dynamicStrokeWidth' =
               Committed(FALSE, baseStrokeWidth, Px(listenerBase))
     ELSE UNCHANGED <<isStylusActive, isStylusActiveRef, stylusPointerId,
                      currentPressure, dynamicStrokeWidth>>

\* Mutant of PointerUp: the pressure is not reset when the stylus ends.
PointerUpNoPressureReset(type, id) ==
  /\ UNCHANGED nonArbiterVars
  /\ id \in down
  /\ down' = down \ {id}
  /\ UNCHANGED <<baseStrokeWidth, listenerBase, currentPressure>>
  /\ activePointers' = MapDelete(activePointers, id)
  /\ last' = Event(type, id, 0, FALSE, id = stylusPointerId)
  /\ IF /\ id \in DOMAIN activePointers
        /\ activePointers[id].type = "pen"
        /\ id = stylusPointerId
     THEN /\ isStylusActive' = FALSE
          /\ isStylusActiveRef' = FALSE
          /\ stylusPointerId' = Null
          /\ dynamicStrokeWidth' =
               Committed(FALSE, baseStrokeWidth, Px(listenerBase))
     ELSE UNCHANGED <<isStylusActive, isStylusActiveRef, stylusPointerId,
                      dynamicStrokeWidth>>

\* the body of handlePointerUp, for a pointerup or a pointercancel event
PointerUp(type, id) ==
  /\ UNCHANGED nonArbiterVars
  /\ id \in down
  /\ down' = down \ {id}
  /\ UNCHANGED <<baseStrokeWidth, listenerBase>>
  /\ activePointers' = MapDelete(activePointers, id)
  /\ last' = Event(type, id, 0, FALSE, id = stylusPointerId)
  /\ IF /\ id \in DOMAIN activePointers
        /\ activePointers[id].type = "pen"
        /\ id = stylusPointerId
     THEN /\ isStylusActive' = FALSE
          /\ isStylusActiveRef' = FALSE
          /\ stylusPointerId' = Null
          /\ currentPressure' = FullPressure
          /\ dynamicStrokeWidth' =
               Committed(FALSE, baseStrokeWidth, Px(listenerBase))
     ELSE UNCHANGED <<isStylusActive, isStylusActiveRef, stylusPointerId,
                      currentPressure, dynamicStrokeWidth>>

HandlePointerUp(id) == PointerUp("pointerup", id)

HandlePointerCancel(id) == PointerUp("pointercancel", id)

\* touchstart on the wrapper, dispatched for a finger that is down
HandleTouchStart(id) ==
  /\ UNCHANGED nonArbiterVars
  /\ id \in TouchIds \cap down
  /\ last' = Event("touchstart", id, 0, PalmRejecting, FALSE)
  /\ UNCHANGED <<baseStrokeWidth, listenerBase, isStylusActive, currentPressure,
                 dynamicStrokeWidth, activePointers, stylusPointerId,
                 isStylusActiveRef, down>>

\* touchmove on the wrapper, dispatched for a finger that is down
HandleTouchMove(id) ==
  /\ UNCHANGED nonArbiterVars
  /\ id \in TouchIds \cap down
  /\ last' = Event("touchmove", id, 0, PalmRejecting, FALSE)
  /\ UNCHANGED <<baseStrokeWidth, listenerBase, isStylusActive, currentPressure,
                 dynamicStrokeWidth, activePointers, stylusPointerId,
                 isStylusActiveRef, down>>

\* The Pen Size slider of App: setStrokeWidth(parseInt(e.target.value)); the
\* render it causes hands the new strokeWidth prop to IpadOptimizedCanvas and
\* both effects that depend on baseStrokeWidth run.
SetStrokeWidth(w) ==
  /\ UNCHANGED nonArbiterVars
  /\ w # baseStrokeWidth
  /\ baseStrokeWidth' = w
  /\ listenerBase' = ListenerEffect(w)
  /\ dynamicStrokeWidth' = Committed(isStylusActive, w, dynamicStrokeWidth)
  /\ last' = Event("strokeWidth", Null, 0, FALSE, FALSE)
  /\ UNCHANGED <<isStylusActive, currentPressure, activePointers,
                 stylusPointerId, isStylusActiveRef, down>>

\* ----------------------------------------------------------- canvas size
\* calculateCanvasDimensions computes in JavaScript numbers; the model computes
\* in exact fractions <<numerator, denominator>> in lowest terms.
RECURSIVE GCD(_, _)
GCD(a, b) == IF b = 0 THEN a ELSE GCD(b, a % b)

Frac(n, d) == LET g == GCD(n, d) IN <<n \div g, d \div g>>
FracInt(n) == <<n, 1>>
FracMul(x, y) ==
  LET g1 == GCD(x[1], y[2])
      g2 == GCD(y[1], x[2])
  IN  <<(x[1] \div g1) * (y[1] \div g2), (x[2] \div g2) * (y[2] \div g1)>>
FracDiv(x, y) == FracMul(x, <<y[2], y[1]>>)
FracLess(x, y) == x[1] * y[2] < y[1] * x[2]
FracMin(x, y) == IF FracLess(y, x) THEN y ELSE x
FracMax(x, y) == IF FracLess(x, y) THEN y ELSE x
\* Math.round of a positive number: the nearest integer, a half rounded up
FracRound(x) == (2 * x[1] + x[2]) \div (2 * x[2])

maxWidth == 1920
maxHeight == 1080
minWidth == 400
minHeight == 300

\* Mutants of ScaleDown: the height is left unscaled; the scale is applied to
\* every image, large or not.
ScaleDownWidthOnly(w, h) ==
  IF FracLess(FracInt(maxWidth), w) \/ FracLess(FracInt(maxHeight), h)
  THEN LET scale == FracMin(FracDiv(FracInt(maxWidth), w),
                            FracDiv(FracInt(maxHeight), h))
       IN  <<FracMul(w, scale), h>>
  ELSE <<w, h>>
ScaleDownUnconditional(w, h) ==
  LET scale == FracMin(FracDiv(FracInt(maxWidth), w),
                       FracDiv(FracInt(maxHeight), h))
  IN  <<FracMul(w, scale), FracMul(h, scale)>>

\* canvasWidth and canvasHeight after "Scale down if image is too large"
ScaleDown(w, h) ==
  IF FracLess(FracInt(maxWidth), w) \/ FracLess(FracInt(maxHeight), h)
  THEN LET scale == FracMin(FracDiv(FracInt(maxWidth), w),
                            FracDiv(FracInt(maxHeight), h))
       IN  <<FracMul(w, scale), FracMul(h, scale)>>
  ELSE <<w, h>>

\* Mutant of ScaleUp: Math.min in the place of Math.max.
ScaleUpMin(w, h) ==
  IF FracLess(w, FracInt(minWidth)) \/ FracLess(h, FracInt(minHeight))
  THEN LET scale == FracMin(FracDiv(FracInt(minWidth), w),
                            FracDiv(FracInt(minHeight), h))
       IN  <<FracMul(w, scale), FracMul(h, scale)>>
  ELSE <<w, h>>

\* canvasWidth and canvasHeight after "Scale up if image is too small"
ScaleUp(w, h) ==
  IF FracLess(w, FracInt(minWidth)) \/ FracLess(h, FracInt(minHeight))
  THEN LET scale == FracMax(FracDiv(FracInt(minWidth), w),
                            FracDiv(FracInt(minHeight), h))
       IN  <<FracMul(w, scale), FracMul(h, scale)>>
  ELSE <<w, h>>

calculateCanvasDimensions(imgWidth, imgHeight) ==
  LET scaledDown == ScaleDown(FracInt(imgWidth), FracInt(imgHeight))
      scaledUp == ScaleUp(scaledDown[1], scaledDown[2])
  IN  [width |-> FracRound(scaledUp[1]), height |-> FracRound(scaledUp[2])]

DefaultImageWidth == 1024
DefaultImageHeight == 768

\* The natural sizes the model loads: around each bound of the canvas, and a few
\* small, ordinary and large ones; 0 is an image without a size.
DimSlack == 1
NaturalDims ==
  UNION {(b - DimSlack)..(b + DimSlack) :
           b \in {minHeight, minWidth, maxHeight, maxWidth}}
  \cup {2, 7, 100, 250, DefaultImageHeight, DefaultImageWidth, 2001, 2160, 3000, 4000}

CanvasInit ==
  /\ imageWidth = DefaultImageWidth
  /\ imageHeight = DefaultImageHeight
  /\ canvasDims = calculateCanvasDimensions(DefaultImageWidth, DefaultImageHeight)

\* onLoad of the background <img>, with the natural size of the loaded image;
\* the render that follows computes the canvas size
HandleImageLoad(naturalWidth, naturalHeight) ==
  /\ UNCHANGED nonCanvasVars
  /\ IF naturalWidth # 0 /\ naturalHeight # 0
     THEN /\ imageWidth' = naturalWidth
          /\ imageHeight' = naturalHeight
          /\ canvasDims' = calculateCanvasDimensions(naturalWidth, naturalHeight)
     ELSE UNCHANGED canvasVars

\* ------------------------------------------------------------ compositing
\* handleExport (Save Image) and handleDigitize with getCombinedImageAsBase64.
\* An operation runs from its click through its awaits; the closure of the
\* render in which it was clicked gives it bgSize, imageWidth, imageHeight and
\* apiKey.  Each await is a step the environment completes or fails.
MaxOps == 2
Slots == 1..MaxOps

Sizings == {"contain", "cover", "100% 100%"}

FracSub(x, y) == Frac(x[1] * y[2] - y[1] * x[2], x[2] * y[2])
FracHalf(x) == Frac(x[1], 2 * x[2])

\* x = (cw - bw * scale) / 2, y = (ch - bh * scale) / 2,
\* ctx.drawImage(bgImg, x, y, bw * scale, bh * scale)
Centred(canvas, natural, scale) ==
  LET w == FracMul(FracInt(natural[1]), scale)
      h == FracMul(FracInt(natural[2]), scale)
  IN  [layer |-> "background",
       x |-> FracHalf(FracSub(FracInt(canvas.width), w)),
       y |-> FracHalf(FracSub(FracInt(canvas.height), h)),
       w |-> w, h |-> h]

\* Mutants of BackgroundRect: contain takes the larger scale; cover takes the
\* smaller scale; the other sizings draw the image at its natural size.
BackgroundRectContainMax(sizing, canvas, natural) ==
  IF sizing \in {"contain", "cover"}
  THEN Centred(canvas, natural,
               FracMax(Frac(canvas.width, natural[1]),
                       Frac(canvas.height, natural[2])))
  ELSE [layer |-> "background", x |-> FracInt(0), y |-> FracInt(0),
        w |-> FracInt(canvas.width), h |-> FracInt(canvas.height)]
BackgroundRectCoverMin(sizing, canvas, natural) ==
  IF sizing \in {"contain", "cover"}
  THEN Centred(canvas, natural,
               FracMin(Frac(canvas.width, natural[1]),
                       Frac(canvas.height, natural[2])))
  ELSE [layer |-> "background", x |-> FracInt(0), y |-> FracInt(0),
        w |-> FracInt(canvas.width), h |-> FracInt(canvas.height)]
BackgroundRectNaturalSize(sizing, canvas, natural) ==
  IF sizing = "contain"
  THEN Centred(canvas, natural,
               FracMin(Frac(canvas.width, natural[1]),
                       Frac(canvas.height, natural[2])))
  ELSE IF sizing = "cover"
  THEN Centred(canvas, natural,
               FracMax(Frac(canvas.width, natural[1]),
                       Frac(canvas.height, natural[2])))
  ELSE [layer |-> "background", x |-> FracInt(0), y |-> FracInt(0),
        w |-> FracInt(natural[1]), h |-> FracInt(natural[2])]

\* The rectangle bgImg.onload draws the background into, for a canvas of size
\* canvas and a background image of natural size natural = <<bw, bh>>.
BackgroundRect(sizing, canvas, natural) ==
  IF sizing = "contain"
  THEN Centred(canvas, natural,
               FracMin(Frac(canvas.width, natural[1]),
                       Frac(canvas.height, natural[2])))
  ELSE IF sizing = "cover"
  THEN Centred(canvas, natural,
               FracMax(Frac(canvas.width, natural[1]),
                       Frac(canvas.height, natural[2])))
  ELSE [layer |-> "background", x |-> FracInt(0), y |-> FracInt(0),
        w |-> FracInt(canvas.width), h |-> FracInt(canvas.height)]

\* ctx.drawImage(annotationImg, 0, 0): the raster of the drawing surface, which
\* has the size of the canvas
AnnotationRect(canvas) ==
  [layer |-> "annotation", x |-> FracInt(0), y |-> FracInt(0),
   w |-> FracInt(canvas.width), h |-> FracInt(canvas.height)]

\* An error message is known by the substrings the handler looks for.
Markers == {"not found", "404", "API key", "401", "403"}
Message(contains) == [has |-> TRUE, contains |-> contains]
\* the rejection of an image load is an Event, which has no message
NoMessage == [has |-> FALSE, contains |-> {}]

NoText == "none"
NoError == [kind |-> "none", contains |-> {}]

\* Mutant of DisplayedError: the credential patterns are tried first.
DisplayedErrorCredentialFirst(message) ==
  IF ~message.has
  THEN [kind |-> "default", contains |-> {}]
  ELSE IF message.contains \cap {"API key", "401", "403"} # {}
  THEN [kind |-> "credential", contains |-> {"API key"}]
  ELSE IF message.contains \cap {"not found", "404"} # {}
  THEN [kind |-> "model", contains |-> {"not found"}]
  ELSE [kind |-> "original", contains |-> message.contains]

\* The error handleDigitize displays for a caught error
DisplayedError(message) ==
  IF ~message.has
  THEN [kind |-> "default", contains |-> {}]
  ELSE IF message.contains \cap {"not found", "404"} # {}
  THEN [kind |-> "model", contains |-> {"not found"}]
  ELSE IF message.contains \cap {"API key", "401", "403"} # {}
  THEN [kind |-> "credential", contains |-> {"API key"}]
  ELSE [kind |-> "original", contains |-> message.contains]

\* String.prototype.trim on the texts of the key input
Trim(text) ==
  IF text = " " THEN "" ELSE IF text = " key " THEN "key" ELSE text

KeyTexts == {"", " ", " key "}

NoOp ==
  [kind |-> "none", pc |-> "idle", sizing |-> "contain",
   canvas |-> [width |-> 0, height |-> 0], natural |-> <<0, 0>>,
   loads |-> <<>>, layers |-> <<>>, output |-> "none", requests |-> 0,
   alerted |-> FALSE, failedAt |-> "none", error |-> NoMessage]

InFlight(op) == op.pc \notin {"idle", "done", "failed"}
FreeSlots == {s \in Slots : ~InFlight(ops[s])}
LowestFree == CHOOSE s \in FreeSlots : \A t \in FreeSlots : s <= t

\* the operation as its click leaves it, awaiting canvasRef.current.exportImage
Started(kind) ==
  [NoOp EXCEPT !.kind = kind, !.pc = "raster", !.sizing = bgSize,
               !.canvas = calculateCanvasDimensions(imageWidth, imageHeight)]

\* storedKey is localStorage.getItem('gemini_api_key') || ''
ComposeInit(storedKey) ==
  /\ bgSize = "contain"
  /\ apiKey = storedKey
  /\ apiKeyInput = ""
  /\ isDigitizing = FALSE
  /\ digitizedText = NoText
  /\ digitizationError = NoError
  /\ showDigitizationResult = FALSE
  /\ showApiKeySettings = FALSE
  /\ ops = [s \in Slots |-> NoOp]
  /\ lastStep = "none"

\* the Background Size select
SetBgSize(v) ==
  /\ v # bgSize
  /\ bgSize' = v
  /\ lastStep' = "setBgSize"
  /\ UNCHANGED <<apiKey, apiKeyInput, isDigitizing, digitizedText,
                 digitizationError, showDigitizationResult, showApiKeySettings,
                 ops>>
  /\ UNCHANGED nonComposeVars

\* Save Image: handleExport up to its first await
HandleExport ==
  /\ FreeSlots # {}
  /\ ops' = [ops EXCEPT ![LowestFree] = Started("export")]
  /\ lastStep' = "export"
  /\ UNCHANGED <<bgSize, apiKey, apiKeyInput, isDigitizing, digitizedText,
                 digitizationError, showDigitizationResult, showApiKeySettings>>
  /\ UNCHANGED nonComposeVars

\* Mutant of HandleDigitize: the return without a key leaves isDigitizing set.
HandleDigitizeStuck ==
  /\ ~isDigitizing
  /\ digitizationError' = NoError
  /\ digitizedText' = NoText
  /\ isDigitizing' = TRUE
  /\ IF apiKey = ""
     THEN /\ showApiKeySettings' = TRUE
          /\ lastStep' = "digitizeNoKey"
          /\ UNCHANGED ops
     ELSE /\ FreeSlots # {}
          /\ ops' = [ops EXCEPT ![LowestFree] = Started("digitize")]
          /\ lastStep' = "digitize"
          /\ UNCHANGED showApiKeySettings
  /\ UNCHANGED <<bgSize, apiKey, apiKeyInput, showDigitizationResult>>
  /\ UNCHANGED nonComposeVars

\* Mutant of HandleDigitize: the button is not disabled while isDigitizing.
HandleDigitizeUnguarded ==
  /\ digitizationError' = NoError
  /\ digitizedText' = NoText
  /\ IF apiKey = ""
     THEN /\ showApiKeySettings' = TRUE
          /\ isDigitizing' = FALSE
          /\ lastStep' = "digitizeNoKey"
          /\ UNCHANGED ops
     ELSE /\ FreeSlots # {}
          /\ isDigitizing' = TRUE
          /\ ops' = [ops EXCEPT ![LowestFree] = Started("digitize")]
          /\ lastStep' = "digitize"
          /\ UNCHANGED showApiKeySettings
  /\ UNCHANGED <<bgSize, apiKey, apiKeyInput, showDigitizationResult>>
  /\ UNCHANGED nonComposeVars

\* Mutant of HandleDigitize: the earlier text and error are not cleared.
HandleDigitizeKeepsResult ==
  /\ ~isDigitizing
  /\ IF apiKey = ""
     THEN /\ showApiKeySettings' = TRUE
          /\ isDigitizing' = FALSE
          /\ lastStep' = "digitizeNoKey"
          /\ UNCHANGED ops
     ELSE /\ FreeSlots # {}
          /\ isDigitizing' = TRUE
          /\ ops' = [ops EXCEPT ![LowestFree] = Started("digitize")]
          /\ lastStep' = "digitize"
          /\ UNCHANGED showApiKeySettings
  /\ UNCHANGED <<bgSize, apiKey, apiKeyInput, showDigitizationResult,
                 digitizationError, digitizedText>>
  /\ UNCHANGED nonComposeVars

\* Digitize Image (disabled while isDigitizing): handleDigitize up to its return
\* without a key, or up to the first await of getCombinedImageAsBase64
HandleDigitize ==
  /\ ~isDigitizing
  /\ digitizationError' = NoError
  /\ digitizedText' = NoText
  /\ IF apiKey = ""
     THEN /\ showApiKeySettings' = TRUE
          /\ isDigitizing' = FALSE
          /\ lastStep' = "digitizeNoKey"
          /\ UNCHANGED ops
     ELSE /\ FreeSlots # {}
          /\ isDigitizing' = TRUE
          /\ ops' = [ops EXCEPT ![LowestFree] = Started("digitize")]
          /\ lastStep' = "digitize"
          /\ UNCHANGED showApiKeySettings
  /\ UNCHANGED <<bgSize, apiKey, apiKeyInput, showDigitizationResult>>
  /\ UNCHANGED nonComposeVars

\* Mutant of Failed: the error is swallowed.
FailedSilently(s, stage, message) ==
  /\ ops' = [ops EXCEPT ![s].pc = "failed", ![s].failedAt = stage,
                        ![s].error = message]
  /\ lastStep' = IF ops[s].kind = "export" THEN "exportFailed" ELSE "digitizeFailed"
  /\ IF ops[s].kind = "export"
     THEN UNCHANGED isDigitizing
     ELSE isDigitizing' = FALSE
  /\ UNCHANGED <<bgSize, apiKey, apiKeyInput, digitizedText, digitizationError,
                 showDigitizationResult, showApiKeySettings>>
  /\ UNCHANGED nonComposeVars

\* The catch of the operation in slot s for an error thrown at stage:
\* handleExport alerts; handleDigitize displays the classified message, opens
\* the result dialog and, in its finally, clears isDigitizing.
Failed(s, stage, message) ==
  /\ ops' = [ops EXCEPT ![s].pc = "failed", ![s].failedAt = stage,
                        ![s].error = message,
                        ![s].alerted = (ops[s].kind = "export")]
  /\ lastStep' = IF ops[s].kind = "export" THEN "exportFailed" ELSE "digitizeFailed"
  /\ IF ops[s].kind = "export"
     THEN UNCHANGED <<digitizationError, showDigitizationResult, isDigitizing>>
     ELSE /\ digitizationError' = DisplayedError(message)
          /\ showDigitizationResult' = TRUE
          /\ isDigitizing' = FALSE
  /\ UNCHANGED <<bgSize, apiKey, apiKeyInput, digitizedText, showApiKeySettings>>
  /\ UNCHANGED nonComposeVars

\* a step of the operation in slot s that touches only the operation
Advance(s, op, name) ==
  /\ ops' = [ops EXCEPT ![s] = op]
  /\ lastStep' = name
  /\ UNCHANGED <<bgSize, apiKey, apiKeyInput, isDigitizing, digitizedText,
                 digitizationError, showDigitizationResult, showApiKeySettings>>
  /\ UNCHANGED nonComposeVars

\* await canvasRef.current.exportImage("png") resolves: the composite canvas is
\* created and bgImg.src = backgroundImage starts the background load
RasterResolved(s) ==
  /\ ops[s].pc = "raster"
  /\ Advance(s, [ops[s] EXCEPT !.loads = Append(@, "background"),
                               !.pc = "background"],
             "rasterResolved")

RasterRejected(s, message) ==
  /\ ops[s].pc = "raster"
  /\ Failed(s, "raster", message)

\* Mutant of PaintBackground: the promise resolves before the image is drawn.
PaintBackgroundSkipped(op, natural) ==
  [op EXCEPT !.loads = Append(@, "annotation"), !.natural = natural,
             !.pc = "annotation"]

\* bgImg.onload: draw the background, resolve; annotationImg.src = data
PaintBackground(op, natural) ==
  [op EXCEPT !.layers = Append(@, BackgroundRect(op.sizing, op.canvas, natural)),
             !.loads = Append(@, "annotation"), !.natural = natural,
             !.pc = "annotation"]

BackgroundLoaded(s, natural) ==
  /\ ops[s].pc = "background"
  /\ Advance(s, PaintBackground(ops[s], natural), "backgroundLoaded")

\* bgImg.onerror = reject
BackgroundFailed(s) ==
  /\ ops[s].pc = "background"
  /\ Failed(s, "background", NoMessage)

\* annotationImg.onload: draw the annotation, resolve; then handleExport calls
\* canvas.toBlob, and getCombinedImageAsBase64 returns canvas.toDataURL, with
\* which handleDigitize calls model.generateContent
PaintAnnotation(op) ==
  IF op.kind = "export"
  THEN [op EXCEPT !.layers = Append(@, AnnotationRect(op.canvas)), !.pc = "blob"]
  ELSE [op EXCEPT !.layers = Append(@, AnnotationRect(op.canvas)),
                  !.output = "dataURL", !.requests = @ + 1, !.pc = "request"]

AnnotationLoaded(s) ==
  /\ ops[s].pc = "annotation"
  /\ Advance(s, PaintAnnotation(ops[s]), "annotationLoaded")

\* annotationImg.onerror = reject
AnnotationFailed(s) ==
  /\ ops[s].pc = "annotation"
  /\ Failed(s, "annotation", NoMessage)

\* the callback of canvas.toBlob: a non-null blob is downloaded
BlobReady(s, blob) ==
  /\ ops[s].pc = "blob"
  /\ Advance(s, [ops[s] EXCEPT !.pc = "done",
                               !.output = IF blob THEN "download" ELSE "none"],
             "blobReady")

\* Mutant of ServiceReplied: the finally is left out.
ServiceRepliedNoFinally(s) ==
  /\ ops[s].pc = "request"
  /\ ops' = [ops EXCEPT ![s].pc = "done"]
  /\ digitizedText' = "text"
  /\ showDigitizationResult' = TRUE
  /\ lastStep' = "serviceReplied"
  /\ UNCHANGED <<bgSize, apiKey, apiKeyInput, digitizationError,
                 showApiKeySettings, isDigitizing>>
  /\ UNCHANGED nonComposeVars

\* await result.response; response.text(); finally
ServiceReplied(s) ==
  /\ ops[s].pc = "request"
  /\ ops' = [ops EXCEPT ![s].pc = "done"]
  /\ digitizedText' = "text"
  /\ showDigitizationResult' = TRUE
  /\ isDigitizing' = FALSE
  /\ lastStep' = "serviceReplied"
  /\ UNCHANGED <<bgSize, apiKey, apiKeyInput, digitizationError,
                 showApiKeySettings>>
  /\ UNCHANGED nonComposeVars

\* Mutant of ServiceFailed: the first failure sends the request again.
ServiceFailedRetry(s, message) ==
  /\ ops[s].pc = "request"
  /\ IF ops[s].requests = 1
     THEN Advance(s, [ops[s] EXCEPT !.requests = @ + 1], "retry")
     ELSE Failed(s, "request", message)

\* generateContent or result.response rejects, or response.text() throws
ServiceFailed(s, message) ==
  /\ ops[s].pc = "request"
  /\ Failed(s, "request", message)

\* a handler of the dialogs, which touches none of the operations
Dialog(name) ==
  /\ lastStep' = name
  /\ UNCHANGED <<bgSize, isDigitizing, digitizedText, digitizationError, ops>>
  /\ UNCHANGED nonComposeVars

\* the overlay, the close icon and the Close button of the result dialog
CloseDigitizationResult ==
  /\ showDigitizationResult
  /\ showDigitizationResult' = FALSE
  /\ Dialog("closeResult")
  /\ UNCHANGED <<apiKey, apiKeyInput, showApiKeySettings>>

\* the API Key button
OpenApiKeySettings ==
  /\ apiKeyInput' = apiKey
  /\ showApiKeySettings' = TRUE
  /\ Dialog("openSettings")
  /\ UNCHANGED <<apiKey, showDigitizationResult>>

\* the overlay, the close icon and the Cancel button of the settings dialog
CloseApiKeySettings ==
  /\ showApiKeySettings
  /\ showApiKeySettings' = FALSE
  /\ Dialog("closeSettings")
  /\ UNCHANGED <<apiKey, apiKeyInput, showDigitizationResult>>

\* onChange of the key input
TypeApiKey(text) ==
  /\ showApiKeySettings
  /\ text # apiKeyInput
  /\ apiKeyInput' = text
  /\ Dialog("typeKey")
  /\ UNCHANGED <<apiKey, showApiKeySettings, showDigitizationResult>>

\* the Save button (disabled for a blank input) and the Enter key
HandleSaveApiKey ==
  /\ showApiKeySettings
  /\ IF Trim(apiKeyInput) # ""
     THEN /\ apiKey' = Trim(apiKeyInput)
          /\ showApiKeySettings' = FALSE
          /\ apiKeyInput' = ""
     ELSE UNCHANGED <<apiKey, showApiKeySettings, apiKeyInput>>
  /\ Dialog("saveKey")
  /\ UNCHANGED showDigitizationResult

\* the Clear Key button, shown when a key is stored
HandleClearApiKey ==
  /\ showApiKeySettings
  /\ apiKey # ""
  /\ apiKey' = ""
  /\ apiKeyInput' = ""
  /\ showApiKeySettings' = FALSE
  /\ Dialog("clearKey")
  /\ UNCHANGED showDigitizationResult

\* ------------------------------------------------------------ image loads
\* backgroundImage is the default image (0) or the latest upload (1, 2, ...).
\* A load is an Image object whose onload has not run yet: the preload of the
\* mount effect, the dimension probe of an upload, or the displayed <img>.
NumUploads == 3
Images == 0..NumUploads
DefaultImage == 0

\* naturalWidth and naturalHeight of an image; no two images agree
ImageSize(image) ==
  <<DefaultImageWidth * (image + 1), DefaultImageHeight * (image + 1)>>

Load(kind, image) == [kind |-> kind, image |-> image]

LoadInit ==
  /\ backgroundImage = DefaultImage
  /\ pendingLoads = {Load("preload", DefaultImage), Load("display", DefaultImage)}

\* handleImageUpload: setBackgroundImage(url) gives the <img> a new src, which
\* replaces the load it had pending; a probe Image is started for the file
HandleImageUpload ==
  /\ backgroundImage < NumUploads
  /\ backgroundImage' = backgroundImage + 1
  /\ pendingLoads' =
       {l \in pendingLoads : l.kind # "display"}
         \cup {Load("probe", backgroundImage + 1),
               Load("display", backgroundImage + 1)}
  /\ UNCHANGED <<arbiterVars, canvasVars, composeVars>>

\* onload of the preload, of a probe, or handleImageLoad of the <img>: each
\* records the natural size of the image it loaded
ImageLoaded(load) ==
  /\ load \in pendingLoads
  /\ pendingLoads' = pendingLoads \ {load}
  /\ imageWidth' = ImageSize(load.image)[1]
  /\ imageHeight' = ImageSize(load.image)[2]
  /\ canvasDims' = calculateCanvasDimensions(ImageSize(load.image)[1],
                                            ImageSize(load.image)[2])
  /\ UNCHANGED <<arbiterVars, composeVars, backgroundImage>>

\* The pressure an event of this contact may report: any for a pen, the
\* constant of hardware without pressure otherwise.
ReportedPressures(id) ==
  IF PointerType(id) = "pen" THEN Pressures ELSE {PressureSteps \div 2}

Next ==
  \/ \E id \in PointerIds : \E p \in ReportedPressures(id) : HandlePointerDown(id, p)
  \/ \E id \in PointerIds : \E p \in ReportedPressures(id) : HandlePointerMove(id, p)
  \/ \E id \in PointerIds : HandlePointerUp(id)
  \/ \E id \in PointerIds : HandlePointerCancel(id)
  \/ \E id \in TouchIds : HandleTouchStart(id)
  \/ \E id \in TouchIds : HandleTouchMove(id)
  \/ \E w \in StrokeWidths : SetStrokeWidth(w)

Init == ArbiterInit /\ CanvasInit /\ ComposeInit("") /\ LoadInit

Spec == Init /\ [][Next]_vars

NextCanvas ==
  \E w, h \in NaturalDims \cup {0} : HandleImageLoad(w, h)

SpecCanvas == Init /\ [][NextCanvas]_vars

\* the sizes of the images loaded and composited in SpecPlace
PlaceSizes ==
  {<<200, 100>>, <<100, 1000>>, <<1024, 768>>, <<3000, 3000>>, <<4000, 100>>}

Idle == \A s \in Slots : ~InFlight(ops[s])

\* One export at a time, over background images and canvases of several shapes
NextPlace ==
  \/ \E size \in PlaceSizes : HandleImageLoad(size[1], size[2])
  \/ \E v \in Sizings : SetBgSize(v)
  \/ Idle /\ HandleExport
  \/ \E s \in Slots : RasterResolved(s)
  \/ \E s \in Slots : \E natural \in PlaceSizes : BackgroundLoaded(s, natural)
  \/ \E s \in Slots : AnnotationLoaded(s)
  \/ \E s \in Slots : BlobReady(s, TRUE)

SpecPlace == Init /\ [][NextPlace]_vars

\* what exportImage may reject with, and what the service may fail with
RasterMessages == {Message({})}
ServiceMessages ==
  {NoMessage, Message({})}
    \cup {Message({m}) : m \in Markers}
    \cup {Message({"404", "401"})}

\* Exports and digitizations in flight together, with every failure, in a
\* browser that has a key stored
NextOps ==
  \/ HandleExport
  \/ HandleDigitize
  \/ \E s \in Slots : RasterResolved(s)
  \/ \E s \in Slots : \E m \in RasterMessages : RasterRejected(s, m)
  \/ \E s \in Slots : BackgroundLoaded(s, <<imageWidth, imageHeight>>)
  \/ \E s \in Slots : BackgroundFailed(s)
  \/ \E s \in Slots : AnnotationLoaded(s)
  \/ \E s \in Slots : AnnotationFailed(s)
  \/ \E s \in Slots : \E blob \in BOOLEAN : BlobReady(s, blob)
  \/ \E s \in Slots : ServiceReplied(s)
  \/ \E s \in Slots : ServiceFailed(s, NoMessage)
  \/ CloseDigitizationResult

InitOps == ArbiterInit /\ CanvasInit /\ ComposeInit("key") /\ LoadInit

SpecOps == InitOps /\ [][NextOps]_vars

\* Digitizations, one at a time as the disabled button has it, with the dialogs
NextKey ==
  \/ HandleDigitize
  \/ \E s \in Slots : RasterResolved(s)
  \/ \E s \in Slots : \E m \in RasterMessages : RasterRejected(s, m)
  \/ \E s \in Slots : BackgroundLoaded(s, <<imageWidth, imageHeight>>)
  \/ \E s \in Slots : BackgroundFailed(s)
  \/ \E s \in Slots : AnnotationLoaded(s)
  \/ \E s \in Slots : AnnotationFailed(s)
  \/ \E s \in Slots : ServiceReplied(s)
  \/ \E s \in Slots : \E m \in ServiceMessages : ServiceFailed(s, m)
  \/ CloseDigitizationResult
  \/ OpenApiKeySettings
  \/ CloseApiKeySettings
  \/ \E text \in KeyTexts : TypeApiKey(text)
  \/ HandleSaveApiKey
  \/ HandleClearApiKey

SpecKey == Init /\ [][NextKey]_vars

\* an awaited promise of a digitization settles: it resolves or it rejects
Settle ==
  \E s \in Slots :
    \/ RasterResolved(s)
    \/ \E m \in RasterMessages : RasterRejected(s, m)
    \/ BackgroundLoaded(s, <<imageWidth, imageHeight>>)
    \/ BackgroundFailed(s)
    \/ AnnotationLoaded(s)
    \/ AnnotationFailed(s)
    \/ ServiceReplied(s)
    \/ \E m \in ServiceMessages : ServiceFailed(s, m)

\* SpecKey in which every awaited promise settles
SpecKeyFair == SpecKey /\ WF_vars(Settle)

NextLoads ==
  \/ HandleImageUpload
  \/ \E load \in pendingLoads : ImageLoaded(load)

SpecLoads == Init /\ [][NextLoads]_vars

\* ================================================================ claims
PenStartOrActiveMove(e) ==
  /\ e.id \in PenIds
  /\ \/ e.type = "pointerdown"
     \/ e.type = "pointermove" /\ e.wasStylus

TouchStartOrMove(e) ==
  /\ e.id \in TouchIds
  /\ e.type \in {"pointerdown", "pointermove", "touchstart", "touchmove"}

StylusEnded(e) ==
  /\ e.type \in {"pointerup", "pointercancel"}
  /\ e.wasStylus

\* max(1, b*(0.5 + 1.5*p)) for the pressure p/PressureSteps, in 1/WidthUnit px
SpecifiedWidth(b, p) ==
  LET scaled == b * (PressureSteps + 3 * p)
  IN  IF scaled < WidthUnit THEN WidthUnit ELSE scaled

\* C1: after every stylus contact-start, and every contact-move of the active
\* stylus, reporting the pressure p in [0,1], the effective stroke width is
\* max(1, b*(0.5 + 1.5*p)) for the base width b; p = 0 gives max(1, 0.5*b).
C1_PressureWidthLaw ==
  PenStartOrActiveMove(last) =>
    dynamicStrokeWidth = SpecifiedWidth(baseStrokeWidth, last.pressure)

\* C2: while an active stylus id is recorded every touch contact-start and
\* contact-move is suppressed and not tracked; the first touch contact-start or
\* contact-move after the contact-end or contact-cancel of the active stylus is
\* not suppressed.
C2_PalmRejection ==
  [][TouchStartOrMove(last') =>
       /\ stylusPointerId # Null =>
            last'.prevented /\ activePointers' = activePointers
       /\ StylusEnded(last) => ~last'.prevented]_vars

C2_Witness ==
  /\ TouchStartOrMove(last)
  /\ last.prevented
  /\ stylusPointerId # Null
  /\ last.id \notin DOMAIN activePointers

\* C3: after the contact-end or contact-cancel of the active stylus the arbiter
\* is Idle, the effective stroke width is the current base width and the
\* pressure is 1.0.
C3_StylusEndResets ==
  StylusEnded(last) =>
    /\ stylusPointerId = Null
    /\ ~isStylusActive
    /\ ~isStylusActiveRef
    /\ dynamicStrokeWidth = Px(baseStrokeWidth)
    /\ currentPressure = FullPressure

C3_Witness ==
  /\ StylusEnded(last)
  /\ baseStrokeWidth # DefaultStrokeWidth
  /\ dynamicStrokeWidth = Px(baseStrokeWidth)
  /\ currentPressure = FullPressure
  /\ stylusPointerId = Null

\* C4: whenever some stylus contact has started and has neither ended nor been
\* cancelled, a touch contact-start or contact-move is suppressed, and at most
\* one stylus id is recorded as active.
C4_TouchSuppressedWhilePenDown ==
  /\ stylusPointerId \in PenIds \cup {Null}
  /\ (TouchStartOrMove(last) /\ PenIds \cap down # {}) => last.prevented

\* C5: a mouse event is never suppressed; a touch contact-start or contact-move
\* arriving while the arbiter is Idle is not suppressed, the contact-start
\* records the touch contact, and the arbiter stays Idle.
C5_PassThrough ==
  /\ last.id \in MouseIds => ~last.prevented
  /\ (TouchStartOrMove(last) /\ stylusPointerId = Null) =>
       /\ ~last.prevented
       /\ ~isStylusActive
       /\ last.type = "pointerdown" =>
            /\ last.id \in DOMAIN activePointers
            /\ activePointers[last.id].type = "touch"

C5_Witness ==
  /\ TouchStartOrMove(last)
  /\ last.type = "pointerdown"
  /\ stylusPointerId = Null
  /\ ~last.prevented
  /\ last.id \in DOMAIN activePointers
  /\ MouseIds \cap down # {}

\* C6: when the configured base width changes while no stylus is active, the
\* effective stroke width is the new base width.
C6_WidthSnapsToBase ==
  (last.type = "strokeWidth" /\ ~isStylusActive) =>
    dynamicStrokeWidth = Px(baseStrokeWidth)

C6_Witness ==
  /\ last.type = "strokeWidth"
  /\ ~isStylusActive
  /\ baseStrokeWidth = MaxPen
  /\ dynamicStrokeWidth = Px(MaxPen)

\* The canvas size the specification's steps give: the scale as a fraction,
\* then both dimensions rounded.
Scaled(w, h, scale) ==
  [width |-> FracRound(FracMul(FracInt(w), scale)),
   height |-> FracRound(FracMul(FracInt(h), scale))]

TooLarge(w, h) == w > maxWidth \/ h > maxHeight
TooSmall(w, h) == w < minWidth \/ h < minHeight

\* C7: calculateCanvasDimensions applied to its own output returns that output.
C7_Idempotent ==
  calculateCanvasDimensions(canvasDims.width, canvasDims.height) = canvasDims

C7_Witness ==
  /\ TooLarge(imageWidth, imageHeight)
  /\ canvasDims.width # imageWidth
  /\ canvasDims.height # imageHeight
  /\ TooLarge(canvasDims.width, canvasDims.height)
  /\ calculateCanvasDimensions(canvasDims.width, canvasDims.height) = canvasDims

\* C8: for W > 1920 or H > 1080 the canvas is (round(W*s), round(H*s)) with
\* s = min(1920/W, 1080/H), nothing scaled up afterwards, and fits in 1920x1080.
C8_ScaleDownOnly ==
  TooLarge(imageWidth, imageHeight) =>
    /\ canvasDims =
         Scaled(imageWidth, imageHeight,
                FracMin(Frac(maxWidth, imageWidth), Frac(maxHeight, imageHeight)))
    /\ canvasDims.width <= maxWidth
    /\ canvasDims.height <= maxHeight

C10_InRangeUnchanged ==
  (~TooLarge(imageWidth, imageHeight) /\ ~TooSmall(imageWidth, imageHeight)) =>
    canvasDims = [width |-> imageWidth, height |-> imageHeight]

C10_Witness ==
  /\ imageWidth = maxWidth
  /\ imageHeight = minHeight
  /\ canvasDims = [width |-> maxWidth, height |-> minHeight]

\* C11: the canvas size never exceeds the upper bound: width <= 1920 and
\* height <= 1080, for every pair of positive image dimensions.
C11_WithinUpperBound ==
  /\ canvasDims.width <= maxWidth
  /\ canvasDims.height <= maxHeight

\* C12: the canvas size is never below the lower bound: width >= 400 and
\* height >= 300, for every pair of positive image dimensions.
C12_AtLeastLowerBound ==
  /\ canvasDims.width >= minWidth
  /\ canvasDims.height >= minHeight

C12_Witness ==
  /\ imageWidth < minWidth
  /\ imageHeight > maxHeight
  /\ canvasDims.width = minWidth
  /\ canvasDims.height > maxHeight

FracLeq(x, y) == ~FracLess(y, x)

\* the operations that have painted their background
Painted == {s \in Slots : Len(ops[s].layers) >= 1}
BackgroundOf(s) == ops[s].layers[1]

\* the drawn rectangle has the aspect ratio of the image: w * bh = h * bw
PreservesAspect(rect, natural) ==
  FracMul(rect.w, FracInt(natural[2])) = FracMul(rect.h, FracInt(natural[1]))

\* the drawn rectangle is centred: 2x + w = cw and 2y + h = ch
IsCentred(rect, canvas) ==
  /\ FracMul(FracInt(2), rect.x) = FracSub(FracInt(canvas.width), rect.w)
  /\ FracMul(FracInt(2), rect.y) = FracSub(FracInt(canvas.height), rect.h)

\* the scale is cw/bw or ch/bh: one side of the rectangle is the canvas's
FitsOneSide(rect, canvas) ==
  \/ rect.w = FracInt(canvas.width)
  \/ rect.h = FracInt(canvas.height)

Square100 == [width |-> 100, height |-> 100]

\* C13: in contain mode the background is drawn with scale min(cw/bw, ch/bh),
\* centred: the rectangle keeps the aspect ratio of the image, lies inside the
\* canvas (offsets >= 0, size <= canvas size) and touches it on one side; and
\* 200x100 on 100x100 is drawn 100x50 at (0, 25).
C13_ContainPlacement ==
  /\ BackgroundRect("contain", Square100, <<200, 100>>)
       = [layer |-> "background", x |-> FracInt(0), y |-> FracInt(25),
          w |-> FracInt(100), h |-> FracInt(50)]
  /\ \A s \in Painted :
       ops[s].sizing = "contain" =>
         LET rect == BackgroundOf(s)
             canvas == ops[s].canvas
         IN  /\ PreservesAspect(rect, ops[s].natural)
             /\ IsCentred(rect, canvas)
             /\ FitsOneSide(rect, canvas)
             /\ FracLeq(FracInt(0), rect.x)
             /\ FracLeq(FracInt(0), rect.y)
             /\ FracLeq(rect.w, FracInt(canvas.width))
             /\ FracLeq(rect.h, FracInt(canvas.height))

\* a contained background that leaves part of the canvas free
C13_Witness ==
  \E s \in Painted :
    /\ ops[s].sizing = "contain"
    /\ FracLess(FracInt(0), BackgroundOf(s).x) \/ FracLess(FracInt(0), BackgroundOf(s).y)

\* C14: in cover mode the background is drawn with scale max(cw/bw, ch/bh),
\* centred: the rectangle keeps the aspect ratio of the image, covers the
\* canvas (offsets <= 0, size >= canvas size) and touches it on one side; and
\* 200x100 on 100x100 is drawn 200x100 at (-50, 0).
C14_CoverPlacement ==
  /\ BackgroundRect("cover", Square100, <<200, 100>>)
       = [layer |-> "background", x |-> FracInt(-50), y |-> FracInt(0),
          w |-> FracInt(200), h |-> FracInt(100)]
  /\ \A s \in Painted :
       ops[s].sizing = "cover" =>
         LET rect == BackgroundOf(s)
             canvas == ops[s].canvas
         IN  /\ PreservesAspect(rect, ops[s].natural)
             /\ IsCentred(rect, canvas)
             /\ FitsOneSide(rect, canvas)
             /\ FracLeq(rect.x, FracInt(0))
             /\ FracLeq(rect.y, FracInt(0))
             /\ FracLeq(FracInt(canvas.width), rect.w)
             /\ FracLeq(FracInt(canvas.height), rect.h)

\* a covering background that overflows the canvas
C14_Witness ==
  \E s \in Painted :
    /\ ops[s].sizing = "cover"
    /\ FracLess(BackgroundOf(s).x, FracInt(0)) \/ FracLess(BackgroundOf(s).y, FracInt(0))

\* C15: with any sizing other than contain and cover the background is drawn
\* at (0, 0) with exactly the size of the canvas, whatever its aspect ratio.
C15_StretchPlacement ==
  /\ \A sizing \in {"100% 100%", "fill", ""} :
       BackgroundRect(sizing, Square100, <<200, 100>>)
         = [layer |-> "background", x |-> FracInt(0), y |-> FracInt(0),
            w |-> FracInt(100), h |-> FracInt(100)]
  /\ \A s \in Painted :
       ops[s].sizing \notin {"contain", "cover"} =>
         /\ BackgroundOf(s).x = FracInt(0)
         /\ BackgroundOf(s).y = FracInt(0)
         /\ BackgroundOf(s).w = FracInt(ops[s].canvas.width)
         /\ BackgroundOf(s).h = FracInt(ops[s].canvas.height)

\* a stretched background whose aspect ratio is not the canvas's
C15_Witness ==
  \E s \in Painted :
    /\ ops[s].sizing = "100% 100%"
    /\ ~PreservesAspect(BackgroundOf(s), ops[s].natural)

LayerNames(op) == [i \in 1..Len(op.layers) |-> op.layers[i].layer]

\* the operation has encoded its canvas, or asked for the encoding
Encoding(op) ==
  \/ op.pc \in {"blob", "request", "done"}
  \/ op.output # "none"
  \/ op.requests > 0

\* C16: in every composite the annotation is painted only after the background
\* has been loaded and painted, and the canvas is encoded only after both
\* paints: the layers, in painting order, are the background then the
\* annotation.
C16_BackgroundThenAnnotation ==
  \A s \in Slots :
    /\ LayerNames(ops[s]) \in {<<>>, <<"background">>, <<"background", "annotation">>}
    /\ Encoding(ops[s]) => LayerNames(ops[s]) = <<"background", "annotation">>

\* an export has downloaded its composite and a digitization has sent its own
C16_Witness ==
  \E s, t \in Slots :
    /\ ops[s].kind = "export" /\ ops[s].output = "download"
    /\ ops[t].kind = "digitize" /\ ops[t].requests = 1

CompositeStages == {"raster", "background", "annotation"}

\* C17: a composite whose background fails to load, or whose annotation raster
\* fails to be produced or loaded, ends in failure with no output (no download,
\* no data URL, no transcription request), paints nothing after the failure
\* (no annotation after a background failure), and tells the user: the export
\* alerts, the digitization shows its error in the result dialog.
C17_FailsAtomically ==
  /\ \A s \in Slots :
       (ops[s].pc = "failed" /\ ops[s].failedAt \in CompositeStages) =>
         /\ ops[s].output = "none"
         /\ ops[s].requests = 0
         /\ LayerNames(ops[s]) =
              IF ops[s].failedAt = "annotation" THEN <<"background">> ELSE <<>>
         /\ ops[s].kind = "export" => ops[s].alerted
  /\ lastStep = "digitizeFailed" =>
       /\ digitizationError # NoError
       /\ showDigitizationResult
       /\ ~isDigitizing

\* an export failed on its background, and a digitization has just failed on
\* its annotation raster
C17_Witness ==
  /\ lastStep = "digitizeFailed"
  /\ \E s, t \in Slots :
       /\ ops[s].kind = "export" /\ ops[s].pc = "failed"
       /\ ops[s].failedAt = "background"
       /\ ops[t].kind = "digitize" /\ ops[t].pc = "failed"
       /\ ops[t].failedAt = "annotation"

\* C18: whenever no image load is pending (the preload, the probes and the
\* displayed image have completed, in any order), imageWidth and imageHeight
\* are the natural size of the current background image, and the canvas size
\* is the target size for that image.
C18_DimensionsOfCurrentImage ==
  pendingLoads = {} =>
    /\ <<imageWidth, imageHeight>> = ImageSize(backgroundImage)
    /\ canvasDims = calculateCanvasDimensions(ImageSize(backgroundImage)[1],
                                              ImageSize(backgroundImage)[2])

ExportsInFlight == {s \in Slots : ops[s].kind = "export" /\ InFlight(ops[s])}

\* C19: exports are serialized: no Save Image export starts while another is
\* in flight, so at most one export is in flight.
C19_ExportsSerialized ==
  Cardinality(ExportsInFlight) <= 1

\* C20: Digitize requested with an empty API key opens the API key settings
\* dialog and ends there: no composite is started and no request is sent (the
\* operations are as they were), no digitization error is recorded, the result
\* dialog is not opened, and isDigitizing is false.
C20_DigitizeWithoutKey ==
  [][(/\ ~isDigitizing
      /\ apiKey = ""
      /\ lastStep' \in {"digitize", "digitizeNoKey"})
       => /\ lastStep' = "digitizeNoKey"
          /\ showApiKeySettings'
          /\ ~isDigitizing'
          /\ ops' = ops
          /\ digitizationError' = NoError
          /\ digitizedText' = NoText
          /\ showDigitizationResult' = showDigitizationResult
          /\ apiKey' = ""]_vars

\* Digitize was requested after the stored key had been cleared, while an
\* earlier digitization was on record
C20_Witness ==
  /\ lastStep = "digitizeNoKey"
  /\ showApiKeySettings
  /\ ~isDigitizing
  /\ \E s \in Slots : ops[s].kind = "digitize" /\ ops[s].pc = "done"

NoDuplicates(seq) == \A i, j \in 1..Len(seq) : seq[i] = seq[j] => i = j

Ended(op) == op.pc \in {"done", "failed"}

\* C21: nothing is retried: an operation sends at most one request to the
\* service and loads each of its images at most once, and an operation that
\* has ended (failed or done) does nothing more: its slot changes only when the
\* user starts a new operation with Save Image or Digitize.
C21_NoRetry ==
  [][\A s \in Slots :
       /\ ops'[s].requests <= 1
       /\ NoDuplicates(ops'[s].loads)
       /\ (Ended(ops[s]) /\ ops'[s] # ops[s]) =>
            /\ lastStep' \in {"export", "digitize"}
            /\ ops'[s].pc = "raster"
            /\ ops'[s].requests = 0
            /\ ops'[s].loads = <<>>]_vars

\* a digitization whose request failed, and the user has since closed the
\* dialog: the request was sent once
C21_Witness ==
  /\ lastStep = "closeResult"
  /\ \E s \in Slots :
       /\ ops[s].pc = "failed"
       /\ ops[s].failedAt = "request"
       /\ ops[s].requests = 1
       /\ ops[s].loads = <<"background", "annotation">>

\* C22: the stroke width handed to the drawing surface is always within the
\* pen size range, 1 to 20 px.
C22_WidthWithinPenRange ==
  /\ Px(MinPen) <= dynamicStrokeWidth
  /\ dynamicStrokeWidth <= Px(MaxPen)

ModelPatterns == {"not found", "404"}
CredentialPatterns == {"API key", "401", "403"}

\* the digitization in slot s fails in this step
DigitizeFails(s) ==
  /\ ops[s].kind = "digitize"
  /\ InFlight(ops[s])
  /\ ops'[s].pc = "failed"

\* C23: when a digitization fails, the displayed error is classified from the
\* caught message: "not found" or "404" gives the model message; otherwise
\* "API key", "401" or "403" gives the invalid-key message; otherwise the
\* original message, or the generic fallback when the error has no message;
\* and the result dialog is open with the error and no text.
C23_ErrorClassified ==
  [][\A s \in Slots :
       DigitizeFails(s) =>
         LET caught == ops'[s].error
             shown == digitizationError'
         IN  /\ shown # NoError
             /\ showDigitizationResult'
             /\ digitizedText' = NoText
             /\ IF ~caught.has
                THEN shown.kind = "default"
                ELSE IF caught.contains \cap ModelPatterns # {}
                THEN shown.kind = "model"
                ELSE IF caught.contains \cap CredentialPatterns # {}
                THEN shown.kind = "credential"
                ELSE /\ shown.kind = "original"
                     /\ shown.contains = caught.contains]_vars

\* a failure whose message matches both patterns is shown as the model error
C23_Witness ==
  /\ lastStep = "digitizeFailed"
  /\ digitizationError.kind = "model"
  /\ showDigitizationResult
  /\ \E s \in Slots :
       /\ ops[s].pc = "failed"
       /\ ops[s].error.contains \cap ModelPatterns # {}
       /\ ops[s].error.contains \cap CredentialPatterns # {}

DigitizesInFlight == {s \in Slots : ops[s].kind = "digitize" /\ InFlight(ops[s])}

\* C24: when every awaited promise settles, every started digitization ends
\* with isDigitizing false, and isDigitizing is true exactly while a
\* digitization is between its start and its end.
C24_DigitizeEnds ==
  /\ [](isDigitizing <=> DigitizesInFlight # {})
  /\ isDigitizing ~> ~isDigitizing

\* a digitization has just ended with a transcription
C24_Witness ==
  /\ lastStep = "serviceReplied"
  /\ ~isDigitizing
  /\ digitizedText # NoText
  /\ DigitizesInFlight = {}

\* C25: at most one digitization is in flight: Digitize is disabled while
\* isDigitizing, so a second one cannot start before the first has ended.
C25_OneDigitizeInFlight ==
  Cardinality(DigitizesInFlight) <= 1

\* a digitization is in flight after an export has ended, and the export's
\* slot is free for another operation
C25_Witness ==
  /\ Cardinality(DigitizesInFlight) = 1
  /\ isDigitizing
  /\ \E s \in FreeSlots : ops[s].kind = "export"

\* C26: digitizedText and digitizationError are never both set: a Digitize
\* start clears both, a success sets only the text, a failure sets only the
\* error; and the result dialog opens only in a step that leaves one of the
\* two set.
C26_TextOrError ==
  [][/\ ~(digitizedText' # NoText /\ digitizationError' # NoError)
     /\ lastStep' \in {"digitize", "digitizeNoKey"} =>
          digitizedText' = NoText /\ digitizationError' = NoError
     /\ lastStep' = "serviceReplied" =>
          digitizedText' # NoText /\ digitizationError' = NoError
     /\ lastStep' = "digitizeFailed" =>
          digitizedText' = NoText /\ digitizationError' # NoError
     /\ (~showDigitizationResult /\ showDigitizationResult') =>
          (digitizedText' # NoText \/ digitizationError' # NoError)]_vars

\* the dialog shows a transcription, the earlier state of the key dialog kept
C26_Witness ==
  /\ lastStep = "serviceReplied"
  /\ showDigitizationResult
  /\ showApiKeySettings
  /\ digitizedText # NoText
  /\ digitizationError = NoError

\* C27: whenever no stylus id is recorded (and the effects of the last render
\* have run) the pressure is 1.0 and the effective stroke width is the base
\* width; the move of a pen while no stylus id is recorded changes neither.
C27_IdleDefaults ==
  /\ [](stylusPointerId = Null =>
          /\ currentPressure = FullPressure
          /\ dynamicStrokeWidth = Px(baseStrokeWidth))
  /\ [][(/\ last'.type = "pointermove"
         /\ last'.id \in PenIds
         /\ stylusPointerId = Null)
          => UNCHANGED <<currentPressure, dynamicStrokeWidth, isStylusActive,
                         stylusPointerId>>]_vars

\* a pen that is down but is not the active stylus moves while the arbiter is
\* Idle, with a pressure other than 1.0 and a base width other than the default
C27_Witness ==
  /\ last.type = "pointermove"
  /\ last.id \in PenIds \cap down
  /\ last.pressure \notin {0, FullPressure}
  /\ stylusPointerId = Null
  /\ baseStrokeWidth # DefaultStrokeWidth
  /\ dynamicStrokeWidth = Px(baseStrokeWidth)

\* C28: the contact-end or contact-cancel of a contact other than the active
\* stylus removes the contact from the contact map and changes nothing else:
\* active stylus id, active state, pressure and effective width stay.
C28_OtherContactEnds ==
  [][(/\ last'.type \in {"pointerup", "pointercancel"}
      /\ last'.id # stylusPointerId)
       => /\ activePointers' = MapDelete(activePointers, last'.id)
          /\ UNCHANGED <<stylusPointerId, isStylusActive, isStylusActiveRef,
                         currentPressure, dynamicStrokeWidth, baseStrokeWidth,
                         listenerBase>>]_vars

\* a tracked pen that is not the active stylus has ended while a stylus is
\* active at a pressure other than 1.0
C28_Witness ==
  /\ last.type \in {"pointerup", "pointercancel"}
  /\ last.id \in PenIds
  /\ ~last.wasStylus
  /\ stylusPointerId \in PenIds \ {last.id}
  /\ isStylusActive
  /\ currentPressure # FullPressure

====
